---- MODULE Spec2Model ----
(***************************************************************************)
(* Model of the black-screen controller (black_controller.py) and of the   *)
(* presentation process it launches (fullscreen_black.py).                 *)
(*                                                                         *)
(* The controller is a single Tk thread: one handler runs at a time        *)
(* (tkpc), the child process and the operating system act concurrently.    *)
(* Handles are small integers, None is 0.                                  *)
(***************************************************************************)
EXTENDS Integers, Sequences, FiniteSets, TLC

\* ---------------------------------------------------------------- bounds
\* process ids the operating system can hand out
MaxPid == 2
\* job-object handles the operating system can hand out
MaxJob == 2
\* monitor callbacks one EnumDisplayMonitors call can make
MaxMonitors == 2

\* ------------------------------------------------------ program constants
\* ttk.Spinbox(from_=0, to=10)
SpinMax == 10
\* tk.IntVar(value=1)
SpinInit == 1
\* for _ in range(10) in close_black
GraceIters == 10
\* idx = 1 / target_index = 1 / monitor_index: int = 1
DefaultIndex == 1
\* JOB_OBJECT_LIMIT_KILL_ON_JOB_CLOSE = 0x00002000
JOB_OBJECT_LIMIT_KILL_ON_JOB_CLOSE == 8192

None == 0
Pids == 1..MaxPid
JobHandles == 1..MaxJob

\* ------------------------------------------------------------- strings
\* Strings are sequences of one-character strings, so that str() and int()
\* are conversions and not the identity.
DigitChars == <<"0", "1", "2", "3", "4", "5", "6", "7", "8", "9">>

RECURSIVE Str(_)
\* str(index) for an int
Str(n) ==
    IF n < 0 THEN <<"-">> \o Str(-n)
    ELSE IF n < 10 THEN <<DigitChars[n + 1]>>
    ELSE Str(n \div 10) \o <<DigitChars[(n % 10) + 1]>>

IsDigit(c) == \E d \in 1..10 : DigitChars[d] = c
DigitVal(c) == (CHOOSE d \in 1..10 : DigitChars[d] = c) - 1

RECURSIVE DigitsVal(_)
DigitsVal(s) ==
    IF Len(s) = 0 THEN 0
    ELSE 10 * DigitsVal(SubSeq(s, 1, Len(s) - 1)) + DigitVal(s[Len(s)])

AllDigits(s) == Len(s) > 0 /\ \A k \in 1..Len(s) : IsDigit(s[k])

\* int(s): [ok |-> FALSE] stands for ValueError
ParseInt(s) ==
    IF AllDigits(s) THEN [ok |-> TRUE, val |-> DigitsVal(s)]
    ELSE IF Len(s) > 1 /\ s[1] = "-" /\ AllDigits(Tail(s))
         THEN [ok |-> TRUE, val |-> 0 - DigitsVal(Tail(s))]
    ELSE IF Len(s) > 1 /\ s[1] = "+" /\ AllDigits(Tail(s))
         THEN [ok |-> TRUE, val |-> DigitsVal(Tail(s))]
    ELSE [ok |-> FALSE, val |-> 0]

ChildFlag == <<"-", "-", "c", "h", "i", "l", "d">>
ExePath == <<"e", "x", "e">>
PythonPath == <<"p", "y">>
ScriptPath == <<"f", "b", ".", "p", "y">>

\* a controller that resolves the index itself and passes 0 for an index above 1:
\* a wrong variant of GetChildCommand
GetChildCommandClamped(isFrozen, index) ==
    IF isFrozen THEN <<ExePath, ChildFlag, Str(IF index > 1 THEN 0 ELSE index)>>
    ELSE <<PythonPath, ScriptPath, Str(IF index > 1 THEN 0 ELSE index)>>

\* _get_child_command
GetChildCommand(isFrozen, index) ==
    IF isFrozen THEN <<ExePath, ChildFlag, Str(index)>>
    ELSE <<PythonPath, ScriptPath, Str(index)>>

\* sys.argv as the launched process sees it: the interpreter is not part of it
SysArgv(isFrozen, cmd) == IF isFrozen THEN cmd ELSE Tail(cmd)

\* run_child_mode_from_args with 0 as the default: a wrong variant of RunChildModeIndex
RunChildModeIndexZero(argv) ==
    IF Len(argv) >= 3 /\ argv[2] = ChildFlag /\ ParseInt(argv[3]).ok
    THEN ParseInt(argv[3]).val
    ELSE 0

\* run_child_mode_from_args: the index after "--child", 1 when absent or invalid
RunChildModeIndex(argv) ==
    IF \E k \in 1..Len(argv) : argv[k] = ChildFlag
    THEN LET i == CHOOSE k \in 1..Len(argv) :
                     argv[k] = ChildFlag /\ \A j \in 1..(k - 1) : argv[j] # ChildFlag
         IN IF i + 1 <= Len(argv)
            THEN (IF ParseInt(argv[i + 1]).ok THEN ParseInt(argv[i + 1]).val
                  ELSE DefaultIndex)
            ELSE DefaultIndex
    ELSE DefaultIndex

\* an entry point that reads sys.argv[0] instead of sys.argv[1]: a wrong variant
\* of ScriptIndex
ScriptIndexWrongArg(argv) ==
    IF Len(argv) > 0
    THEN (IF ParseInt(argv[1]).ok THEN ParseInt(argv[1]).val ELSE DefaultIndex)
    ELSE DefaultIndex

\* fullscreen_black.py __main__: the first positional argument, 1 when absent or invalid
ScriptIndex(argv) ==
    IF Len(argv) > 1
    THEN (IF ParseInt(argv[2]).ok THEN ParseInt(argv[2]).val ELSE DefaultIndex)
    ELSE DefaultIndex

\* ------------------------------------------------------------ monitors
\* what GetMonitorInfoW can report for one monitor: rcMonitor and dwFlags
RectPool ==
    { [left |-> 0, top |-> 0, right |-> 2, bottom |-> 1, flags |-> 1],
      [left |-> 0 - 2, top |-> 0, right |-> 0, bottom |-> 1, flags |-> 0] }

ZeroRect == [left |-> 0, top |-> 0, right |-> 0, bottom |-> 0, flags |-> 0]

\* one _callback invocation: GetMonitorInfoW's result and the rectangle it filled in
CallbackResults ==
    { [ok |-> TRUE, rc |-> r] : r \in RectPool } \cup { [ok |-> FALSE, rc |-> ZeroRect] }

\* the callbacks one EnumDisplayMonitors call makes
CallbackRuns == UNION { [1..n -> CallbackResults] : n \in 0..MaxMonitors }

\* GetSystemMetrics(0), GetSystemMetrics(1)
MetricsPool == { <<2, 1>> }

\* the dict _callback appends
MonitorEntry(r) ==
    [left |-> r.left, top |-> r.top, right |-> r.right, bottom |-> r.bottom,
     width |-> r.right - r.left, height |-> r.bottom - r.top,
     primary |-> (r.flags % 2 = 1)]

\* the dict the GetSystemMetrics fallback appends
FallbackEntry(m) ==
    [left |-> 0, top |-> 0, right |-> m[1], bottom |-> m[2],
     width |-> m[1], height |-> m[2], primary |-> TRUE]

NoMonitor ==
    [left |-> 0, top |-> 0, right |-> 0, bottom |-> 0,
     width |-> 0, height |-> 0, primary |-> FALSE]

RECURSIVE Collected(_)
\* the entries the callbacks appended: a callback whose GetMonitorInfoW failed appends none
Collected(run) ==
    IF Len(run) = 0 THEN <<>>
    ELSE LET rest == Collected(SubSeq(run, 1, Len(run) - 1))
             last == run[Len(run)]
         IN IF last.ok THEN Append(rest, MonitorEntry(last.rc)) ELSE rest

\* get_monitors without the fallback: a wrong variant of GetMonitors
GetMonitorsNoFallback(enumOk, run, metrics) == Collected(run)

\* get_monitors: the fallback entry is appended only when EnumDisplayMonitors fails
GetMonitors(enumOk, run, metrics) ==
    IF ~enumOk THEN Append(Collected(run), FallbackEntry(metrics))
    ELSE Collected(run)

\* the range test of cover_monitor, off by one: a wrong variant of OutOfRange
OutOfRangeOffByOne(monitor_index, monitors) ==
    monitor_index < 0 \/ monitor_index >= Len(monitors) - 1

\* cover_monitor: monitor_index < 0 or monitor_index >= len(monitors)
OutOfRange(monitor_index, monitors) ==
    monitor_index < 0 \/ monitor_index >= Len(monitors)

\* a fallback to the last entry instead of the first: a wrong variant of Resolve
ResolveLast(monitor_index, monitors) ==
    IF OutOfRange(monitor_index, monitors) THEN monitors[Len(monitors)]
    ELSE monitors[monitor_index + 1]

\* cover_monitor: the entry the window covers
Resolve(monitor_index, monitors) ==
    IF OutOfRange(monitor_index, monitors) THEN monitors[1]
    ELSE monitors[monitor_index + 1]

\* ------------------------------------------------------------- state
VARIABLES
    frozen,        \* is_frozen(): the controller runs as a bundled exe
    have_job,      \* _have_job and sys.platform == 'win32'
    monitor_var,   \* ControllerApp.monitor_var (the spinbox)
    proc,          \* ControllerApp.proc: pid of the owned Popen, None when absent
    job,           \* ControllerApp._job: the retained job handle, None when absent
    polling,       \* ControllerApp._polling
    afterPending,  \* _poll callbacks scheduled with root.after and not yet run
    status_var,    \* ControllerApp.status_var
    open_btn,      \* state of the Open button
    close_btn,     \* state of the Close button
    ctl,           \* the controller process: "alive", "quit" (main loop ended), "crashed",
                   \* "none" when the presentation entry point was started by hand
    tkpc,          \* position of the Tk thread: "mainloop" or a step of close_black
    caller,        \* the handler close_black runs for: "close" or "quit"
    waitIter,      \* sleeps done by the wait loop of close_black
    child,         \* the presentation processes, by pid
    jobs,          \* the job objects of the operating system, by handle
    lastOp,        \* history: the controller handler that ran last
    raised,        \* history: that handler ended with an uncaught exception
    guard,         \* history: how the guard setup of the last launch ended
    heldAtDeath,   \* history: the job handle self._job held when the controller died
    aliveAtDeath   \* history: the children alive when the controller died

ctlVars == <<frozen, have_job, monitor_var, proc, job, polling, afterPending,
             status_var, open_btn, close_btn, ctl, tkpc, caller, waitIter>>
histVars == <<lastOp, raised, guard, heldAtDeath, aliveAtDeath>>
vars == <<ctlVars, child, jobs, histVars>>

Unborn ==
    [st |-> "unborn", frozen |-> FALSE, argv |-> <<>>, idx |-> 0, monitors |-> <<>>,
     enumOk |-> FALSE, monitor |-> NoMonitor, notice |-> FALSE, code |-> 0,
     termReq |-> FALSE, killReq |-> FALSE]

FreeJob == [st |-> "free", flags |-> 0, members |-> {}]

\* Popen.poll() is None
Alive(p) == child[p].st \in {"parse", "enum", "resolve", "show"}

\* the process is gone: its memory is released, the exit code and what was sent to it stay
Exited(c, code) ==
    [Unborn EXCEPT !.st = "exited", !.code = code,
                   !.termReq = c.termReq, !.killReq = c.killReq]

StatusClosed == [kind |-> "closed", pid |-> None]
StatusFailed == [kind |-> "failed", pid |-> None]
StatusRunning(p) == [kind |-> "running", pid |-> p]

Init ==
    /\ frozen \in BOOLEAN
    /\ have_job \in BOOLEAN
    /\ monitor_var = SpinInit
    /\ proc = None
    /\ job = None
    /\ polling = FALSE
    /\ afterPending = 0
    /\ status_var = StatusClosed
    /\ open_btn = "normal"
    /\ close_btn = "disabled"
    /\ ctl = "alive"
    /\ tkpc = "mainloop"
    /\ caller = "none"
    /\ waitIter = 0
    /\ child = [p \in Pids |-> Unborn]
    /\ jobs = [h \in JobHandles |-> FreeJob]
    /\ lastOp = "init"
    /\ raised = FALSE
    /\ guard = "none"
    /\ heldAtDeath = None
    /\ aliveAtDeath = {}

\* a handler can start: the controller lives and the Tk thread is in the main loop
Ready == ctl = "alive" /\ tkpc = "mainloop"

\* ------------------------------------------------------------- spinbox
\* The spinbox is read only by open_black, which returns at once while a child
\* is owned: its value is enumerated while no child is owned.
SetIndex(i) ==
    /\ Ready
    /\ proc = None
    /\ i # monitor_var
    /\ monitor_var' = i
    /\ UNCHANGED <<frozen, have_job, proc, job, polling, afterPending, status_var,
                   open_btn, close_btn, ctl, tkpc, caller, waitIter,
                   child, jobs, histVars>>

\* ---------------------------------------------------------- open_black
\* open_black without its guard: a wrong variant of OwnsChild
OwnsChildNever == FALSE

\* if self.proc is not None: return
OwnsChild == proc # None

OpenNoop ==
    /\ Ready
    /\ OwnsChild
    /\ lastOp' = "open_noop"
    /\ raised' = FALSE
    /\ UNCHANGED <<ctlVars, child, jobs, guard, heldAtDeath, aliveAtDeath>>

\* a failed start that reports nothing: a wrong variant of FailureStatus
FailureStatusSilent == status_var

\* self.status_var.set(f"Failed to start: {e}")
FailureStatus == StatusFailed

\* a start that creates and keeps the job object before the launch, and fails at
\* the launch: a wrong variant of OpenFail
OpenFailKeepsJob ==
    /\ Ready
    /\ ~OwnsChild
    /\ \E h \in JobHandles :
        /\ jobs[h].st = "free" /\ \A g \in 1..(h - 1) : jobs[g].st # "free"
        /\ jobs' = [jobs EXCEPT ![h] = [st |-> "open", flags |-> 0, members |-> {}]]
        /\ job' = h
    /\ status_var' = FailureStatus
    /\ proc' = None
    /\ lastOp' = "open_fail"
    /\ raised' = FALSE
    /\ UNCHANGED <<frozen, have_job, monitor_var, polling, afterPending,
                   open_btn, close_btn, ctl, tkpc, caller, waitIter,
                   child, guard, heldAtDeath, aliveAtDeath>>

\* subprocess.Popen raises: the except branch of open_black
OpenFail ==
    /\ Ready
    /\ ~OwnsChild
    /\ status_var' = FailureStatus
    /\ proc' = None
    /\ lastOp' = "open_fail"
    /\ raised' = FALSE
    /\ UNCHANGED <<frozen, have_job, monitor_var, job, polling, afterPending,
                   open_btn, close_btn, ctl, tkpc, caller, waitIter,
                   child, jobs, guard, heldAtDeath, aliveAtDeath>>

GuardOutcomes ==
    {"create_fail", "setinfo_fail", "openprocess_fail", "assign_fail",
     "exception_early", "exception_late", "ok"}

\* a limit flag one bit off (0x1000, silent breakaway): a wrong variant of LimitFlags
LimitFlagsWrongBit == JOB_OBJECT_LIMIT_KILL_ON_JOB_CLOSE \div 2

\* info.BasicLimitInformation.LimitFlags = JOB_OBJECT_LIMIT_KILL_ON_JOB_CLOSE
LimitFlags == JOB_OBJECT_LIMIT_KILL_ON_JOB_CLOSE

\* The job object that the guard setup leaves behind under handle h, by the step
\* that failed. "exception_early" is an exception before CreateJobObjectW returned,
\* "exception_late" one raised by a later call.
JobAfterGuard(outcome, p) ==
    IF outcome \in {"skipped", "create_fail", "exception_early"} THEN FreeJob
    ELSE IF outcome = "setinfo_fail" THEN [st |-> "closed", flags |-> 0, members |-> {}]
    ELSE IF outcome = "exception_late" THEN [st |-> "open", flags |-> 0, members |-> {}]
    ELSE IF outcome = "openprocess_fail"
         THEN [st |-> "open", flags |-> LimitFlags, members |-> {}]
    ELSE IF outcome = "assign_fail"
         THEN [st |-> "closed", flags |-> LimitFlags, members |-> {}]
    ELSE [st |-> "open", flags |-> LimitFlags, members |-> {p}]

\* self._job = hJob happens only when every step succeeded
RetainedJob(outcome, h) == IF outcome = "ok" THEN h ELSE None

\* a poller that schedules _poll and also runs it: a wrong variant of StartPolling
StartPollingTwice(p) ==
    /\ status_var' = StatusRunning(p)
    /\ polling' = TRUE
    /\ afterPending' = afterPending + 2

\* _start_polling followed by the first _poll, run right after the launch, when
\* the new child has not exited: the status is refreshed and _poll is rescheduled
StartPolling(p) ==
    /\ status_var' = StatusRunning(p)
    /\ polling' = TRUE
    /\ afterPending' = IF polling THEN afterPending ELSE afterPending + 1

\* open_black when Popen succeeds, with a guard setup that aborts the start when
\* one of its steps fails: a wrong variant of OpenOk
OpenOkGuardAborts(outcome) ==
    /\ Ready
    /\ ~OwnsChild
    /\ \E p \in Pids, h \in JobHandles :
        /\ child[p].st = "unborn" /\ \A q \in 1..(p - 1) : child[q].st # "unborn"
        /\ jobs[h].st = "free" /\ \A g \in 1..(h - 1) : jobs[g].st # "free"
        /\ outcome \in (IF have_job THEN GuardOutcomes ELSE {"skipped"})
        /\ child' = [child EXCEPT ![p] =
               [Unborn EXCEPT !.st = "parse", !.frozen = frozen,
                   !.argv = SysArgv(frozen, GetChildCommand(frozen, monitor_var))]]
        /\ jobs' = [jobs EXCEPT ![h] = JobAfterGuard(outcome, p)]
        /\ job' = RetainedJob(outcome, h)
        /\ IF outcome \in {"ok", "skipped"}
           THEN /\ proc' = p
                /\ open_btn' = "disabled"
                /\ close_btn' = "normal"
                /\ StartPolling(p)
                /\ lastOp' = "open_ok"
           ELSE /\ proc' = None
                /\ status_var' = StatusFailed
                /\ lastOp' = "open_fail"
                /\ UNCHANGED <<open_btn, close_btn, polling, afterPending>>
    /\ raised' = FALSE
    /\ guard' = outcome
    /\ UNCHANGED <<frozen, have_job, monitor_var, ctl, tkpc, caller, waitIter,
                   heldAtDeath, aliveAtDeath>>

\* open_black when Popen succeeds: the child is launched with the command of
\* _get_child_command, the guard setup is tried, the controls are switched and the
\* poller is started
OpenOk(outcome) ==
    /\ Ready
    /\ ~OwnsChild
    /\ \E p \in Pids, h \in JobHandles :
        /\ child[p].st = "unborn" /\ \A q \in 1..(p - 1) : child[q].st # "unborn"
        /\ jobs[h].st = "free" /\ \A g \in 1..(h - 1) : jobs[g].st # "free"
        /\ outcome \in (IF have_job THEN GuardOutcomes ELSE {"skipped"})
        /\ child' = [child EXCEPT ![p] =
               [Unborn EXCEPT !.st = "parse", !.frozen = frozen,
                   !.argv = SysArgv(frozen, GetChildCommand(frozen, monitor_var))]]
        /\ jobs' = [jobs EXCEPT ![h] = JobAfterGuard(outcome, p)]
        /\ job' = RetainedJob(outcome, h)
        /\ proc' = p
        /\ open_btn' = "disabled"
        /\ close_btn' = "normal"
        /\ StartPolling(p)
    /\ lastOp' = "open_ok"
    /\ raised' = FALSE
    /\ guard' = outcome
    /\ UNCHANGED <<frozen, have_job, monitor_var, ctl, tkpc, caller, waitIter,
                   heldAtDeath, aliveAtDeath>>

\* --------------------------------------------------------- close_black
\* close_black without its guard: a wrong variant of NoChild
NoChildNever == FALSE

\* if not self.proc: return
NoChild == proc = None

CloseNoop ==
    /\ Ready
    /\ NoChild
    /\ lastOp' = "close_noop"
    /\ raised' = FALSE
    /\ UNCHANGED <<ctlVars, child, jobs, guard, heldAtDeath, aliveAtDeath>>

\* self.proc.terminate(): nothing is sent to a process that has exited (the
\* attribute access fails when there is no Popen; except Exception absorbs it)
Terminate(p) ==
    IF p # None /\ Alive(p) THEN [child EXCEPT ![p].termReq = TRUE] ELSE child

\* close_black (c = "close") or quit (c = "quit") with a child owned: the
\* termination request, then the wait loop
CloseBegin(c) ==
    /\ Ready
    /\ ~NoChild
    /\ child' = Terminate(proc)
    /\ tkpc' = "close_wait"
    /\ caller' = c
    /\ waitIter' = 0
    /\ UNCHANGED <<frozen, have_job, monitor_var, proc, job, polling, afterPending,
                   status_var, open_btn, close_btn, ctl, jobs, histVars>>

\* self.proc.poll() is not None; a missing Popen raises, which ends the try block
HasExited(p) == p = None \/ ~Alive(p)

\* a wait loop that never gives up on a child that does not exit: a wrong variant
\* of CloseWait
CloseWaitForever ==
    /\ ctl = "alive"
    /\ tkpc = "close_wait"
    /\ IF HasExited(proc)
       THEN /\ tkpc' = "close_check"
            /\ UNCHANGED waitIter
       ELSE /\ waitIter' = (waitIter + 1) % GraceIters
            /\ tkpc' = "close_wait"
    /\ UNCHANGED <<frozen, have_job, monitor_var, proc, job, polling, afterPending,
                   status_var, open_btn, close_btn, ctl, caller, child, jobs, histVars>>

\* one round of the wait loop: break when the child has exited, else sleep 0.1 s;
\* the loop ends after GraceIters rounds
CloseWait ==
    /\ ctl = "alive"
    /\ tkpc = "close_wait"
    /\ IF HasExited(proc)
       THEN /\ tkpc' = "close_check"
            /\ UNCHANGED waitIter
       ELSE /\ waitIter' = waitIter + 1
            /\ tkpc' = IF waitIter + 1 >= GraceIters THEN "close_check" ELSE "close_wait"
    /\ UNCHANGED <<frozen, have_job, monitor_var, proc, job, polling, afterPending,
                   status_var, open_btn, close_btn, ctl, caller, child, jobs, histVars>>

\* a stop that does not escalate: a wrong variant of Kill
KillNot(p) == child

\* self.proc.kill(): the process is ended by the operating system
Kill(p) == [child EXCEPT ![p] = Exited([child[p] EXCEPT !.killReq = TRUE], 1)]

\* if self.proc.poll() is None: self.proc.kill()
CloseCheck ==
    /\ ctl = "alive"
    /\ tkpc = "close_check"
    /\ child' = IF HasExited(proc) THEN child ELSE Kill(proc)
    /\ tkpc' = "close_finally"
    /\ UNCHANGED <<frozen, have_job, monitor_var, proc, job, polling, afterPending,
                   status_var, open_btn, close_btn, ctl, caller, waitIter, jobs, histVars>>

\* finally: self._clear_proc(). ControllerApp defines no _clear_proc and nothing
\* assigns one, so the attribute lookup raises AttributeError. The exception leaves
\* the finally block and close_black: the statements after it (closing self._job,
\* self._job = None) and, in quit, root.quit() are not executed. Tk reports the
\* exception of the callback and the main loop goes on. The loop counter is a
\* local of the call and ends with it.
CloseFinally ==
    /\ ctl = "alive"
    /\ tkpc = "close_finally"
    /\ tkpc' = "mainloop"
    /\ lastOp' = caller
    /\ raised' = TRUE
    /\ caller' = "none"
    /\ waitIter' = 0
    /\ UNCHANGED <<frozen, have_job, monitor_var, proc, job, polling, afterPending,
                   status_var, open_btn, close_btn, ctl, child, jobs,
                   guard, heldAtDeath, aliveAtDeath>>

\* ------------------------------------------------- the end of the controller
\* The operating system closes the handles of a process that ends: a job object
\* whose last handle is closed ends its member processes when it has the
\* kill-on-close limit.
KilledByJobClose(p) ==
    \E h \in JobHandles :
        /\ jobs[h].st = "open"
        /\ (jobs[h].flags \div JOB_OBJECT_LIMIT_KILL_ON_JOB_CLOSE) % 2 = 1
        /\ p \in jobs[h].members

ProcessEnds ==
    /\ child' = [p \in Pids |->
                   IF Alive(p) /\ KilledByJobClose(p) THEN Exited(child[p], 1)
                   ELSE child[p]]
    /\ jobs' = [h \in JobHandles |->
                   IF jobs[h].st = "open" THEN [jobs[h] EXCEPT !.st = "closed"]
                   ELSE jobs[h]]
    /\ heldAtDeath' = job
    /\ aliveAtDeath' = {p \in Pids : Alive(p)}

\* quit with no child owned: close_black returns at once, root.quit() ends the
\* main loop and the process exits
QuitIdle ==
    /\ Ready
    /\ NoChild
    /\ ctl' = "quit"
    /\ lastOp' = "quit"
    /\ raised' = FALSE
    /\ ProcessEnds
    /\ UNCHANGED <<frozen, have_job, monitor_var, proc, job, polling, afterPending,
                   status_var, open_btn, close_btn, tkpc, caller, waitIter, guard>>

\* the controller process is ended from outside, at any point
ControllerCrash ==
    /\ ctl = "alive"
    /\ ctl' = "crashed"
    /\ ProcessEnds
    /\ UNCHANGED <<frozen, have_job, monitor_var, proc, job, polling, afterPending,
                   status_var, open_btn, close_btn, tkpc, caller, waitIter,
                   lastOp, raised, guard>>

\* --------------------------------------------------------------- _poll
\* One scheduled _poll. With a child owned that has exited, self._clear_proc()
\* raises AttributeError (see CloseFinally): _polling stays set and _poll is not
\* rescheduled. With a child that still runs the status is refreshed, and with no
\* child nothing is done; both reschedule _poll.
PollTick ==
    /\ Ready
    /\ afterPending > 0
    /\ IF proc # None /\ HasExited(proc)
       THEN /\ afterPending' = afterPending - 1
            /\ lastOp' = "poll_exit"
            /\ raised' = TRUE
            /\ UNCHANGED status_var
       ELSE /\ afterPending' = afterPending
            /\ lastOp' = IF proc # None THEN "poll_running" ELSE "poll_idle"
            /\ raised' = FALSE
            /\ status_var' = IF proc # None THEN StatusRunning(proc) ELSE status_var
    /\ UNCHANGED <<frozen, have_job, monitor_var, proc, job, polling,
                   open_btn, close_btn, ctl, tkpc, caller, waitIter, child, jobs,
                   guard, heldAtDeath, aliveAtDeath>>

\* ------------------------------------------------ the presentation process
\* the entry point reads the index: run_child_mode_from_args in the bundled exe,
\* the __main__ block of fullscreen_black.py otherwise
ChildParse(p) ==
    /\ child[p].st = "parse"
    /\ child' = [child EXCEPT ![p].st = "enum",
                              ![p].idx = IF child[p].frozen
                                         THEN RunChildModeIndex(child[p].argv)
                                         ELSE ScriptIndex(child[p].argv)]
    /\ UNCHANGED <<ctlVars, jobs, histVars>>

\* monitors = get_monitors()
ChildEnumerate(p) ==
    /\ child[p].st = "enum"
    /\ \E enumOk \in BOOLEAN, run \in CallbackRuns, metrics \in MetricsPool :
          child' = [child EXCEPT ![p].st = "resolve",
                                 ![p].enumOk = enumOk,
                                 ![p].monitors = GetMonitors(enumOk, run, metrics)]
    /\ UNCHANGED <<ctlVars, jobs, histVars>>

\* cover_monitor after the enumeration: sys.exit(1) on an empty list, else the
\* index is resolved and the window is shown
ChildResolve(p) ==
    /\ child[p].st = "resolve"
    /\ child' = IF Len(child[p].monitors) = 0
                THEN [child EXCEPT ![p] = Exited(child[p], 1)]
                ELSE [child EXCEPT ![p].st = "show",
                         ![p].notice = OutOfRange(child[p].idx, child[p].monitors),
                         ![p].monitor = Resolve(child[p].idx, child[p].monitors)]
    /\ UNCHANGED <<ctlVars, jobs, histVars>>

\* Escape: root.destroy() ends the main loop of the child, which exits with 0
ChildDismiss(p) ==
    /\ child[p].st = "show"
    /\ child' = [child EXCEPT ![p] = Exited(child[p], 0)]
    /\ UNCHANGED <<ctlVars, jobs, histVars>>

\* the child fails on its own (an uncaught exception, such as tk.Tk() failing)
ChildCrash(p) ==
    /\ Alive(p)
    /\ ~child[p].termReq
    /\ child' = [child EXCEPT ![p] = Exited(child[p], 1)]
    /\ UNCHANGED <<ctlVars, jobs, histVars>>

\* the termination request takes effect
ChildTerminated(p) ==
    /\ Alive(p)
    /\ child[p].termReq
    /\ child' = [child EXCEPT ![p] = Exited(child[p], 1)]
    /\ UNCHANGED <<ctlVars, jobs, histVars>>

\* ------------------------------------------------------- specification
Next ==
    \/ \E i \in 0..SpinMax : SetIndex(i)
    \/ OpenNoop
    \/ OpenFail
    \/ \E outcome \in GuardOutcomes \cup {"skipped"} : OpenOk(outcome)
    \/ CloseNoop
    \/ \E c \in {"close", "quit"} : CloseBegin(c)
    \/ CloseWait
    \/ CloseCheck
    \/ CloseFinally
    \/ QuitIdle
    \/ ControllerCrash
    \/ PollTick
    \/ \E p \in Pids : ChildParse(p)
    \/ \E p \in Pids : ChildEnumerate(p)
    \/ \E p \in Pids : ChildResolve(p)
    \/ \E p \in Pids : ChildDismiss(p)
    \/ \E p \in Pids : ChildCrash(p)
    \/ \E p \in Pids : ChildTerminated(p)

Spec == Init /\ [][Next]_vars

\* The controller with the spinbox left at its initial value. The Tk thread runs a
\* handler it has entered to its end: every statement of close_black returns
\* (poll() does not block, sleep(0.1) returns), which is the fairness stated.
NextStop ==
    \/ OpenNoop
    \/ OpenFail
    \/ \E outcome \in GuardOutcomes \cup {"skipped"} : OpenOk(outcome)
    \/ CloseNoop
    \/ \E c \in {"close", "quit"} : CloseBegin(c)
    \/ CloseWait
    \/ CloseCheck
    \/ CloseFinally
    \/ QuitIdle
    \/ ControllerCrash
    \/ PollTick
    \/ \E p \in Pids : ChildParse(p)
    \/ \E p \in Pids : ChildEnumerate(p)
    \/ \E p \in Pids : ChildResolve(p)
    \/ \E p \in Pids : ChildDismiss(p)
    \/ \E p \in Pids : ChildCrash(p)
    \/ \E p \in Pids : ChildTerminated(p)

SpecStop ==
    /\ Init
    /\ [][NextStop]_vars
    /\ WF_vars(CloseWait)
    /\ WF_vars(CloseCheck)
    /\ WF_vars(CloseFinally)

\* ------------------------------------- the presentation process started by hand
\* the index arguments tried: integers around the monitor count, negative ones
\* included, and texts that int() rejects
IntegerArgs == { Str(n) : n \in (0 - 2)..(MaxMonitors + 2) } \cup { Str(SpinMax) }
NonIntegerArgs == { <<"x">>, <<"1", ".", "5">>, <<>> }

\* sys.argv of "python fullscreen_black.py [arg]" and of "exe --child [arg]"
DirectArgvs(isFrozen) ==
    LET head == IF isFrozen THEN <<ExePath, ChildFlag>> ELSE <<ScriptPath>>
    IN {head} \cup { Append(head, a) : a \in IntegerArgs \cup NonIntegerArgs }

\* no controller runs: one presentation process is started from a shell
InitChild ==
    /\ frozen \in BOOLEAN
    /\ have_job \in BOOLEAN
    /\ monitor_var = SpinInit
    /\ proc = None
    /\ job = None
    /\ polling = FALSE
    /\ afterPending = 0
    /\ status_var = StatusClosed
    /\ open_btn = "normal"
    /\ close_btn = "disabled"
    /\ ctl = "none"
    /\ tkpc = "mainloop"
    /\ caller = "none"
    /\ waitIter = 0
    /\ \E argv \in DirectArgvs(frozen) :
          child = [p \in Pids |->
                     IF p = 1
                     THEN [Unborn EXCEPT !.st = "parse", !.frozen = frozen, !.argv = argv]
                     ELSE Unborn]
    /\ jobs = [h \in JobHandles |-> FreeJob]
    /\ lastOp = "init"
    /\ raised = FALSE
    /\ guard = "none"
    /\ heldAtDeath = None
    /\ aliveAtDeath = {}

NextChild ==
    \/ \E p \in Pids : ChildParse(p)
    \/ \E p \in Pids : ChildEnumerate(p)
    \/ \E p \in Pids : ChildResolve(p)
    \/ \E p \in Pids : ChildDismiss(p)
    \/ \E p \in Pids : ChildCrash(p)

SpecChild == InitChild /\ [][NextChild]_vars

\* ------------------------------------------------------------- claims
AliveSet == {p \in Pids : Alive(p)}
GuardFailures == GuardOutcomes \ {"ok"}

\* C1: whenever stop() (close_black) is called while a child is owned, the call
\* completes with the supervisor in Idle: proc is None, _job is None and the child
\* process no longer exists.
C1_StopEndsIdle ==
    (tkpc = "mainloop" /\ lastOp = "close")
        => (proc = None /\ job = None /\ AliveSet = {})

\* C2: when the child has exited on its own, the poll tick that detects it leaves
\* the supervisor Idle with both handles released: proc is None and _job is None.
C2_PollReleasesHandles ==
    lastOp = "poll_exit" => (proc = None /\ job = None)

\* C3: a KillGroupHandle is never owned without a ChildHandle: in every reachable
\* state _job is not None implies proc is not None, so with no child owned (Idle)
\* both are None.
C3_Pairing ==
    /\ job # None => proc # None
    /\ proc = None => job = None

\* C3 witness: a kill group is held with its child, after a stop and after the
\* poller saw the child gone
C3_Witness == job # None /\ proc # None /\ lastOp = "poll_exit" /\ ~Alive(proc)

\* C4: start() while a child is owned is a no-op (no process is spawned, no
\* supervisor state changes), so at most one child process exists at any time and
\* an owned ChildHandle names exactly one launched process.
C4_StartIdempotent ==
    [][ /\ Cardinality(AliveSet') <= 1
        /\ Cardinality({p \in Pids : child'[p].st # "unborn"}) <= 1
        /\ proc' # None => child'[proc'].st # "unborn"
        /\ (proc # None /\ lastOp # "open_noop" /\ lastOp' = "open_noop")
              => UNCHANGED <<ctlVars, child, jobs>> ]_vars

\* C4 witness: start() was called while the child was owned and running
C4_Witness == lastOp = "open_noop" /\ proc # None /\ Alive(proc)

\* a step in which close_black is entered from the main loop
StopCalled ==
    /\ Ready
    /\ \/ tkpc' = "close_wait"
       \/ lastOp # "close_noop" /\ lastOp' = "close_noop"

\* C5: stop() while Idle is a no-op: it raises nothing, sends no terminate or kill
\* request, closes no handle and leaves proc, _job and _polling unchanged.
C5_StopIdleNoop ==
    [][ (proc = None /\ StopCalled)
           => /\ tkpc' = "mainloop"
              /\ raised' = FALSE
              /\ UNCHANGED <<proc, job, polling, afterPending, child, jobs>> ]_vars

\* C5 witness: stop() was called with no child owned
C5_Witness == lastOp = "close_noop" /\ proc = None /\ ctl = "alive"

\* C6: when process creation fails the supervisor stays Idle with no handle
\* retained, the failure is reported in the status, the poller is not started and
\* the Open/Close controls keep their state.
C6_LaunchFailure ==
    [][ lastOp' = "open_fail"
           => /\ proc' = None
              /\ job' = None
              /\ status_var'.kind = "failed"
              /\ AliveSet' = {}
              /\ UNCHANGED <<polling, afterPending, open_btn, close_btn>> ]_vars

\* C6 witness: a start failed at process creation
C6_Witness ==
    lastOp = "open_fail" /\ status_var.kind = "failed" /\ open_btn = "normal"

\* C7: a failure at any step of the kill-group setup does not abort start(): the
\* child is owned, the kill group is absent, the session is Running with the poller
\* started, and a later stop() ends the child through the direct handle.
C7_GuardFailureAbsorbed ==
    guard \in GuardFailures
        => /\ proc # None
           /\ job = None
           /\ polling
           /\ close_btn = "normal"
           /\ child[proc].st # "unborn"
           /\ lastOp = "open_ok" => status_var = StatusRunning(proc)
           /\ (lastOp \in {"close", "quit"} /\ tkpc = "mainloop") => AliveSet = {}

\* C7 witness: after a failed guard setup, stop() had to force-kill the child
C7_Witness ==
    /\ guard \in GuardFailures
    /\ lastOp = "close"
    /\ proc # None
    /\ child[proc].killReq

\* C8: when the controller dies while it holds the job handle, the child dies
\* with it: no state has the controller dead, the job handle held at its death and
\* the child alive.
C8_KillOnControllerDeath ==
    (ctl = "crashed" /\ heldAtDeath # None) => AliveSet = {}

\* C8 witness: the controller died holding the job handle while the child was alive
C8_Witness ==
    ctl = "crashed" /\ heldAtDeath # None /\ proc \in aliveAtDeath

\* C9: get_monitors never returns an empty sequence, when the native enumeration
\* fails and also when it succeeds with no entry.
C9_NeverEmpty ==
    \A p \in Pids : child[p].st \in {"resolve", "show"} => Len(child[p].monitors) >= 1

\* C9 amended: get_monitors returns at least one entry when EnumDisplayMonitors
\* reports failure (the synthetic entry is appended); when the call succeeds with
\* no entry the list is empty, and cover_monitor then exits with status 1 and
\* shows no window, so a window is shown only with at least one monitor.
C9_FallbackOnFailure ==
    \A p \in Pids :
        /\ (child[p].st \in {"resolve", "show"} /\ ~child[p].enumOk)
              => Len(child[p].monitors) >= 1
        /\ child[p].st = "show" => Len(child[p].monitors) >= 1

\* C9 witness: the native call failed without any entry and the list holds the
\* synthetic entry alone
C9_Witness ==
    \E p \in Pids :
        /\ child[p].st = "resolve"
        /\ ~child[p].enumOk
        /\ \E m \in MetricsPool : child[p].monitors = <<FallbackEntry(m)>>

\* C10: for a monitor list of length N >= 1 and an index i with 0 <= i < N the
\* window covers monitors[i] and no fallback notice is produced.
C10_InRangeResolves ==
    \A p \in Pids :
        (child[p].st = "show" /\ 0 <= child[p].idx /\ child[p].idx < Len(child[p].monitors))
            => /\ child[p].monitor = child[p].monitors[child[p].idx + 1]
               /\ ~child[p].notice

\* C10 witness: index 1 of two different monitors is covered
C10_Witness ==
    \E p \in Pids :
        /\ child[p].st = "show"
        /\ child[p].idx = 1
        /\ Len(child[p].monitors) = 2
        /\ child[p].monitors[1] # child[p].monitors[2]
        /\ child[p].monitor = child[p].monitors[2]

\* C11: for a monitor list of length N >= 1 and an index outside [0, N), negative
\* values included, the window covers monitors[0], a fallback notice is produced
\* and the process goes on to show the window.
C11_OutOfRangeFallsBack ==
    \A p \in Pids :
        /\ (child[p].st = "show"
              /\ (child[p].idx < 0 \/ child[p].idx >= Len(child[p].monitors)))
             => /\ child[p].monitor = child[p].monitors[1]
                /\ child[p].notice
        /\ child[p].st = "show" => child[p].monitor \in { child[p].monitors[k] :
                                                            k \in 1..Len(child[p].monitors) }

\* C11 witness: a negative index with two different monitors shows the first one
C11_Witness ==
    \E p \in Pids :
        /\ child[p].st = "show"
        /\ child[p].idx < 0
        /\ Len(child[p].monitors) = 2
        /\ child[p].monitors[1] # child[p].monitors[2]
        /\ child[p].monitor = child[p].monitors[1]
        /\ child[p].notice

\* the index argument of the entry point, when one is given
HasIndexArg(c) == IF c.frozen THEN Len(c.argv) >= 3 ELSE Len(c.argv) >= 2
IndexArg(c) == IF c.frozen THEN c.argv[3] ELSE c.argv[2]

\* C14: the presentation entry point uses index 1 when no index argument is given,
\* in the script form and in the --child form, and also when the argument is not
\* an integer; it does not fail there.
C14_DefaultIndex ==
    \A p \in Pids :
        (child[p].st \in {"enum", "resolve", "show"}
            /\ (~HasIndexArg(child[p]) \/ IndexArg(child[p]) \in NonIntegerArgs))
          => child[p].idx = 1

\* C14 witness: the bundled exe was started with --child and no value, and the
\* window is shown for index 1
C14_Witness ==
    \E p \in Pids :
        /\ child[p].st = "show"
        /\ child[p].frozen
        /\ child[p].argv = <<ExePath, ChildFlag>>
        /\ child[p].idx = 1

\* C12: start(index) with an index out of range for the monitors still reaches
\* Running: the controller launches the child with the index as chosen, without
\* validating or resolving it, and the child covers monitors[0] and keeps running.
C12_OutOfRangeStartRuns ==
    proc # None =>
        /\ child[proc].st # "unborn"
        /\ polling
        /\ close_btn = "normal"
        /\ open_btn = "disabled"
        /\ child[proc].st \in {"enum", "resolve", "show"} => child[proc].idx = monitor_var
        /\ (child[proc].st = "show" /\ monitor_var >= Len(child[proc].monitors))
              => /\ child[proc].monitor = child[proc].monitors[1]
                 /\ child[proc].notice
                 /\ Alive(proc)

\* C12 witness: start(5) with two monitors: the first is covered and the poller
\* sees the child running
C12_Witness ==
    /\ proc # None
    /\ monitor_var = 5
    /\ child[proc].st = "show"
    /\ Len(child[proc].monitors) = 2
    /\ child[proc].monitor = child[proc].monitors[1]
    /\ lastOp = "poll_running"

Launched == {p \in Pids : child[p].st # "unborn"}

\* C13: once the poller has detected the exit of the child the supervisor is Idle,
\* for exit code 0 and for a non-zero exit code alike, and no child is launched
\* again by the exit.
C13_ExitCodeIrrelevant ==
    /\ \A code \in {0, 1} :
          (lastOp = "poll_exit"
              /\ \E p \in Pids : child[p].st = "exited" /\ child[p].code = code)
            => (proc = None /\ status_var.kind # "running")
    /\ lastOp = "poll_exit" => Cardinality(Launched) = 1

\* C15: in stop() the termination request precedes any force-kill; the force-kill
\* is issued exactly when the child has not exited after the grace-period polls,
\* never for a child that exited during them, and the escalation raises nothing
\* and changes no status.
C15_KillOnlyAfterGrace ==
    [][ /\ \A p \in Pids : child'[p].killReq => child'[p].termReq
        /\ \A p \in Pids :
              (~child[p].killReq /\ child'[p].killReq)
                 => /\ tkpc = "close_check"
                    /\ p = proc
                    /\ Alive(p)
                    /\ waitIter = GraceIters
                    /\ tkpc' = "close_finally"
                    /\ UNCHANGED <<status_var, raised, lastOp>>
        /\ (tkpc = "close_check" /\ tkpc' = "close_finally")
              => ((~child[proc].killReq /\ child'[proc].killReq) <=> Alive(proc)) ]_vars

\* C15 witness: the child outlived the grace period and was force-killed
C15_Witness ==
    /\ tkpc = "close_finally"
    /\ waitIter = GraceIters
    /\ child[proc].termReq
    /\ child[proc].killReq

\* C16: stop() always terminates: the wait loop makes at most 10 sleeps, it is
\* left as soon as the child is seen to have exited, and the handler returns to
\* the main loop even when the child ignores the termination request.
C16_StopTerminates ==
    /\ [](waitIter <= GraceIters)
    /\ []((tkpc = "close_check" /\ waitIter < GraceIters) => ~Alive(proc))
    /\ (tkpc # "mainloop") ~> (tkpc = "mainloop" \/ ctl # "alive")

\* C16 witness: the child ignored the request for the whole grace period and the
\* wait loop ended
C16_Witness ==
    tkpc = "close_check" /\ waitIter = GraceIters /\ Alive(proc) /\ child[proc].termReq

\* C17: stop() releases the KillGroupHandle, after the child has exited or been
\* killed and before the supervisor is back in the main loop: when stop() has
\* ended no kill group is held and none is open with the child in it.
C17_JobReleasedInStop ==
    (tkpc = "mainloop" /\ lastOp = "close")
        => /\ AliveSet = {}
           /\ job = None
           /\ \A h \in JobHandles : jobs[h].members # {} => jobs[h].st = "closed"

\* C18: at most one _poll callback is pending at any time, and only while the
\* poller is marked as running.
C18_SinglePollChain ==
    /\ afterPending <= 1
    /\ afterPending = 1 => polling

\* C18 witness: after a stop the chain of the session is still the only one pending
C18_Witness == afterPending = 1 /\ lastOp = "close" /\ tkpc = "mainloop"

\* C19: the poller is stopped when the state leaves Running: after stop() and
\* after the detection of a natural exit no _poll is pending and _polling is False.
C19_PollerStopped ==
    (tkpc = "mainloop" /\ lastOp \in {"close", "poll_exit"})
        => (~polling /\ afterPending = 0)

\* C20: a poll tick that fires after the session has ended (stop() has run to its
\* end) finds no child owned: it touches no handle, raises nothing and changes no
\* supervisor state.
C20_LateTickInert ==
    [][ (Ready /\ lastOp = "close" /\ lastOp' \in {"poll_idle", "poll_running", "poll_exit"})
           => /\ lastOp' = "poll_idle"
              /\ raised' = FALSE
              /\ UNCHANGED <<proc, job, polling, status_var, child, jobs>> ]_vars

\* C21: the index the launched child reads equals the index chosen in the
\* controller at start time, for every spinbox value and in both launch forms
\* (exe --child index, and fullscreen_black.py index); the command carries the
\* index as plain decimal text and nothing else.
C21_IndexRoundTrip ==
    \A p \in Pids :
        Alive(p) =>
            /\ Len(child[p].argv) = (IF child[p].frozen THEN 3 ELSE 2)
            /\ child[p].frozen => child[p].argv[2] = ChildFlag
            /\ child[p].frozen = frozen
            /\ AllDigits(child[p].argv[Len(child[p].argv)])
            /\ child[p].st # "parse" => child[p].idx = monitor_var

\* C21 witness: index 10 was chosen and the script form read 10
C21_Witness ==
    /\ proc # None
    /\ ~frozen
    /\ monitor_var = SpinMax
    /\ child[proc].st = "enum"
    /\ child[proc].idx = SpinMax

\* C22: every job object that start() creates is retained as self._job or closed
\* before start() returns: while the controller lives no job object is open that
\* the supervisor does not hold.
C22_NoLeakedJob ==
    ctl = "alive" => \A h \in JobHandles : jobs[h].st = "open" => job = h

\* C23: quit performs the stop sequence and then ends the main loop: once quit has
\* run the controller has exited, with the child gone and both handles released.
C23_QuitEndsMainLoop ==
    (lastOp = "quit" /\ tkpc = "mainloop")
        => /\ ctl # "alive"
           /\ AliveSet = {}
           /\ ctl = "quit" => (proc = None /\ job = None)

====
